---- MODULE Spec2Model ----
(***************************************************************************)
(* The lip-sync engine hook (useLipSyncEngine) of the avatar studio: the   *)
(* playback / export controller with the browser collaborators it drives   *)
(* (animation-frame registry, speech synthesis, audio element, audio       *)
(* context, media recorder, transcoder).                                   *)
(*                                                                         *)
(* Numbers are fixed point: poses, emotion fields and generator outputs in *)
(* thousandths, times in milliseconds, timeline durations in microseconds. *)
(* One action is one browser task: a handler runs together with the        *)
(* microtasks it queues (the continuation of an await on an already        *)
(* settled promise), because no other task can run in between.             *)
(***************************************************************************)
EXTENDS Integers, Sequences, FiniteSets, TLC

VARIABLES
    calls,              \* operations of the engine invoked so far
    sinceStart,         \* performance.now() - startTimeRef.current, ms
    script, emotion, seed,          \* props of the hook
    ttsSupported, isSpeaking, hasAudioLoaded, lipState,    \* useState
    modeRef, rafRef, visemeTimelineRef, visemeDurationRef,
    exportResolveRef, audioContextRef, analyserRef, ttsUtteranceRef,
    stageCanvasRef,     \* useRef
    rafPending,         \* animation-frame callbacks registered and not yet run
    ttsSpeaking,        \* an utterance of the engine is being spoken
    audioPaused, audioPos, audioOnEnded,    \* the audio element
    starts,             \* startPreview calls suspended at an await
    exports,            \* exportVideo calls, by call number
    mounted,            \* the hook is mounted
    objectUrlRef,       \* the object URL of the loaded audio file (0: null)
    objectUrls,         \* per object URL created, in order of creation, the
                        \* number of times it has been revoked
    audioGraph,         \* audio contexts, media-element sources and
                        \* analysers created so far
    probe,              \* calls of the synthesizer and the sampler on their
                        \* own, and what they returned
    studio              \* the page's avatar source: its custom portrait
                        \* (customImage), its preset, and per object URL
                        \* created for a portrait the number of times it has
                        \* been revoked

vars == <<calls, sinceStart, script, emotion, seed, ttsSupported, isSpeaking,
          hasAudioLoaded, lipState, modeRef, rafRef,
          visemeTimelineRef, visemeDurationRef, exportResolveRef,
          audioContextRef, analyserRef, ttsUtteranceRef, stageCanvasRef,
          rafPending, ttsSpeaking, audioPaused, audioPos, audioOnEnded,
          starts, exports, mounted, objectUrlRef, objectUrls, audioGraph,
          probe, studio>>

-----------------------------------------------------------------------------
(* Bounds of the model *)

\* seconds after which the age of the start timestamp is no longer counted;
\* every timeline of the model is shorter (see HorizonCoversTimelines)
Horizon == 4
\* operations of the engine (startPreview, stopPreview, loadAudioFile,
\* registerStageCanvas, exportVideo) a behaviour may invoke; the events of the
\* collaborators (frames, clock, completion signals, settled promises) are
\* not counted
MaxCalls == 3
\* draws from the hook's shared generator between two calls of the
\* synthesizer
MaxDraws == 2

HorizonMs == Horizon * 1000

\* the clock advances in steps of two seconds
ClockSteps == {2000}

EXPORT_DURATION_MS == 8000

-----------------------------------------------------------------------------
(* Pure helpers *)

clamp(value, min, max) ==
    LET lo == IF value > min THEN value ELSE min
    IN  IF lo < max THEN lo ELSE max

\* a maximum that forgets its second argument
Max2_First(a, b) == a

Max2(a, b) == IF a > b THEN a ELSE b

IsSpace(c) == c \in {" ", "\t", "\n"}

RECURSIVE SplitWords(_, _, _)
\* text.replace(/\s+/g, " ").trim().split(" ").filter(Boolean): the maximal
\* runs of non-space characters, in order
SplitWords(text, cur, acc) ==
    IF text = <<>>
    THEN IF cur = <<>> THEN acc ELSE Append(acc, cur)
    ELSE IF IsSpace(Head(text))
         THEN SplitWords(Tail(text), <<>>,
                         IF cur = <<>> THEN acc ELSE Append(acc, cur))
         ELSE SplitWords(Tail(text), Append(cur, Head(text)), acc)

getWords(text) == SplitWords(text, <<>>, <<>>)

RECURSIVE TrimLeft(_)
TrimLeft(text) ==
    IF text # <<>> /\ IsSpace(Head(text)) THEN TrimLeft(Tail(text)) ELSE text

RECURSIVE TrimRight(_)
TrimRight(text) ==
    IF text # <<>> /\ IsSpace(text[Len(text)])
    THEN TrimRight(SubSeq(text, 1, Len(text) - 1))
    ELSE text

trim(text) == TrimRight(TrimLeft(text))

\* "Hello, the stage is ready."
DefaultText ==
    <<"H","e","l","l","o",","," ","t","h","e"," ","s","t","a","g","e"," ",
      "i","s"," ","r","e","a","d","y",".">>

\* script.trim() || "Hello, the stage is ready."
SpokenText(s) == IF trim(s) = <<>> THEN DefaultText ELSE trim(s)

\* a word duration from a base of 0.45 s
estimateWordDuration_SlowBase(emo) ==
    clamp(450000 - (emo.mouthEnergy - 500) * 200 - emo.handAmplitude * 50,
          280000, 600000)

\* a word duration that is not clamped
estimateWordDuration_Unclamped(emo) ==
    420000 - (emo.mouthEnergy - 500) * 200 - emo.handAmplitude * 50

\* word duration in microseconds
estimateWordDuration(emo) ==
    LET base == 420000
        energyOffset == (emo.mouthEnergy - 500) * 200
        handOffset == emo.handAmplitude * 50
    IN  clamp(base - energyOffset - handOffset, 280000, 600000)

\* The frames are a function of (text, emotion, seed) alone (createSeeder is
\* created inside the call): a timeline is its frame count, its duration and
\* the inputs that determine its frames.
buildVisemeTimeline(text, emo, sd) ==
    LET words == getWords(text)
    IN  IF Len(words) = 0
        THEN [frames |-> (2500000 * 60) \div 1000000, duration |-> 2500000,
              text |-> text, emotion |-> emo, seed |-> sd]
        ELSE LET wordDuration == estimateWordDuration(emo)
                 duration == Max2(Len(words) * wordDuration + 1200000, 2000000)
             IN  [frames |-> (duration * 60) \div 1000000, duration |-> duration,
                  text |-> text, emotion |-> emo, seed |-> sd]

\* Math.sin(x), x in thousandths of a radian, in thousandths: the argument
\* reduced to one period and Bhaskara's rational approximation of the arch
Sin(x) ==
    LET r == x % 6283
        h == IF r <= 3142 THEN r ELSE r - 3142
        p == h * (3142 - h)
        arch == (16 * p) \div ((49360820 - 4 * p) \div 1000)
    IN  IF r <= 3142 THEN arch ELSE -arch

\* a generator that continues the hook's shared one
createSeeder_Shared(sd) == probe.randomRef

\* createSeeder(seed): the generator's value before its first draw, in
\* thousandths (seed * 10_000)
createSeeder(sd) == sd * 10000

\* one call of the generator: value = Math.sin(value + 0.12345) * 43758.5453
NextValue(value) ==
    LET sine == Sin(value + 123)
    IN  sine * 43758 + (sine * 545) \div 1000

\* what the call returns: value - Math.floor(value), in thousandths
Fraction(value) == value % 1000

RECURSIVE Calls(_, _)
\* the generator's value after k more calls
Calls(value, k) ==
    IF k = 0 THEN value
    ELSE LET v == NextValue(value)
         IN  IF v = v THEN Calls(v, k - 1) ELSE v

RECURSIVE RunStart(_, _)
\* the generator's value after b runs of sixteen calls
RunStart(value, b) ==
    IF b = 0 THEN value
    ELSE LET v == RunStart(value, b - 1)
         IN  IF v = v THEN Calls(v, 16) ELSE v

\* the generator's values after each of its first n calls, as a sequence
DrawValues(value, n) ==
    LET runs == [b \in 1..(n \div 16 + 1) |-> RunStart(value, b - 1)] \o <<>>
    IN  [k \in 1..n |-> Calls(runs[k \div 16 + 1], k % 16)] \o <<>>

\* Math.exp(-x), x >= 0 in thousandths, in thousandths: (1 - x/8)^8
ExpNeg(x) ==
    IF x >= 8000 THEN 0
    ELSE LET b == 1000 - x \div 8
             b2 == (b * b) \div 1000
             b4 == (b2 * b2) \div 1000
         IN  (b4 * b4) \div 1000

\* word.match(re)?.length: the number of characters of the word in a class
MatchCount(word, class) ==
    Cardinality({i \in 1..Len(word) : word[i] \in class})

Vowels == {"a","e","i","o","u","y","A","E","I","O","U","Y"}
Labials == {"p","b","m","f","v","l","P","B","M","F","V","L"}

\* (word.match(/[aeiouy]/gi)?.length ?? 1) / word.length, in thousandths
vowelWeight(word) ==
    LET n == MatchCount(word, Vowels)
    IN  ((IF n = 0 THEN 1 ELSE n) * 1000) \div Len(word)

\* (word.match(/[pbmfvl]/gi)?.length ?? 0) * 0.15
consonantStrength(word) == MatchCount(word, Labials) * 150

\* frame / 60 in microseconds
FrameTime(frame) == (frame * 1000000) \div 60

RECURSIVE PeakSum(_, _, _, _)
\* the sum over the peaks of field * influence at time t (microseconds)
PeakSum(peaks, k, field, t) ==
    IF k > Len(peaks) THEN 0
    ELSE LET diff == (IF t > peaks[k].time THEN t - peaks[k].time
                      ELSE peaks[k].time - t) \div 1000
             influence == IF diff >= 800 THEN 0
                          ELSE ExpNeg((diff * diff) \div 80)
         IN  (peaks[k][field] * influence) \div 1000
             + PeakSum(peaks, k + 1, field, t)

\* buildVisemeTimeline with its frames: the generator is created from the
\* seed and drawn from in the order of the code (per word: noise, time; per
\* frame: mouth, width). Times in microseconds, values in thousandths.
buildVisemeFrames(text, emo, sd) ==
    LET words == getWords(text)
        n == Len(words)
        random == createSeeder(sd)
    IN  IF n = 0
        THEN LET fallbackDuration == 2500000
                 frameCount == (fallbackDuration * 60) \div 1000000
                 r == DrawValues(random, 2 * frameCount)
             IN  [frames |-> [i \in 1..frameCount |->
                     [time |-> FrameTime(i - 1),
                      mouth |-> 200 + (Fraction(r[2 * i - 1]) * 150) \div 1000,
                      width |-> 300 + (Fraction(r[2 * i]) * 150) \div 1000]],
                  duration |-> fallbackDuration]
        ELSE LET wordDuration == estimateWordDuration(emo)
                 duration == Max2(n * wordDuration + 1200000, 2000000)
                 frameCount == (duration * 60) \div 1000000
                 r == DrawValues(random, 2 * n + 2 * frameCount)
                 base == 450 + ((emo.mouthEnergy - 500) * 400) \div 1000
                 peaks == [k \in 1..n |->
                     LET noise == ((Fraction(r[2 * k - 1]) - 500) * 250)
                                      \div 1000
                     IN  [time |-> clamp((k - 1) * wordDuration
                                           + Fraction(r[2 * k]) * 50,
                                         0, duration),
                          mouth |-> clamp(base
                                            + (vowelWeight(words[k]) * 350)
                                                  \div 1000
                                            + consonantStrength(words[k])
                                            + noise, 0, 1000),
                          width |-> clamp(350
                                            + (vowelWeight(words[k]) * 200)
                                                  \div 1000
                                            + (emo.mouthEnergy - 500),
                                          0, 1000)]] \o <<>>
             IN  [frames |-> [i \in 1..frameCount |->
                     LET t == FrameTime(i - 1)
                         mouth == 120 + PeakSum(peaks, 1, "mouth", t)
                         width == 300
                                  + (PeakSum(peaks, 1, "width", t) * 700)
                                        \div 1000
                         mscale == 550 + (Fraction(r[2 * n + 2 * i - 1]) * 100)
                                             \div 1000
                         wscale == 450 + (Fraction(r[2 * n + 2 * i]) * 100)
                                             \div 1000
                     IN  [time |-> t,
                          mouth |-> clamp((mouth * mscale) \div 1000, 50, 1000),
                          width |-> clamp((width * wscale) \div 1000, 50, 950)]],
                  duration |-> duration]

\* a sampler that falls back to the idle value past the last frame
sampleVisemeAt_Idle(timeline, elapsed) ==
    IF Len(timeline) = 0 \/ elapsed >= timeline[Len(timeline)].time
    THEN [mouth |-> 100, width |-> 300]
    ELSE [mouth |-> timeline[1].mouth, width |-> timeline[1].width]

\* sampleViseme on the frames of a timeline, elapsed in microseconds
sampleVisemeAt(timeline, elapsed) ==
    IF Len(timeline) = 0 THEN [mouth |-> 100, width |-> 300]
    ELSE
    LET last == timeline[Len(timeline)]
        total == last.time
    IN  IF elapsed >= total THEN [mouth |-> last.mouth, width |-> last.width]
        ELSE
        LET index == CHOOSE i \in 1..Len(timeline) :
                         /\ timeline[i].time >= elapsed
                         /\ \A j \in 1..(i - 1) : timeline[j].time < elapsed
        IN  IF index <= 1
            THEN [mouth |-> timeline[1].mouth, width |-> timeline[1].width]
            ELSE
            LET prev == timeline[index - 1]
                current == timeline[index]
                span == IF current.time - prev.time = 0 THEN 1
                        ELSE current.time - prev.time
                weight == clamp(((elapsed - prev.time) * 1000) \div span,
                                0, 1000)
            IN  [mouth |-> prev.mouth
                           + ((current.mouth - prev.mouth) * weight) \div 1000,
                 width |-> prev.width
                           + ((current.width - prev.width) * weight) \div 1000]

\* useRef<VisemeFrame[]>([]) and useRef<number>(0)
NoTimeline == [frames |-> 0, duration |-> 0, text |-> <<>>,
               emotion |-> [mouthEnergy |-> 0, handAmplitude |-> 0,
                            gazeIntensity |-> 0, browLift |-> 0],
               seed |-> 0]

-----------------------------------------------------------------------------
(* Pose *)

initialLipState ==
    [mouthOpen |-> 100, mouthWidth |-> 100, blink |-> 0, eyebrowLift |-> 0,
     headYaw |-> 0, headPitch |-> 0, headRoll |-> 0, gazeX |-> 0, gazeY |-> 0,
     handLeft |-> 0, handRight |-> 0, bodySway |-> 0]

\* a reset that eases the mouth toward its idle value instead of setting it
resetLipState_Eased(prev) ==
    [prev EXCEPT !.mouthOpen = (@ + 120) \div 2, !.mouthWidth = 200,
                 !.handLeft = 0, !.handRight = 0, !.bodySway = 0]

resetLipState(prev) ==
    [prev EXCEPT !.mouthOpen = 120, !.mouthWidth = 200, !.handLeft = 0,
                 !.handRight = 0, !.bodySway = 0]

\* x * y of two numbers in thousandths
Mul(x, y) == (x * y) \div 1000

\* Math.pow(x, 12), x in thousandths
Pow12(x) ==
    LET x2 == Mul(x, x)
        x4 == Mul(x2, x2)
        x8 == Mul(x4, x4)
    IN  Mul(x8, x4)

Abs(x) == IF x < 0 THEN -x ELSE x

\* The nine sinusoids of updateLoop, by the channel they drive, and its nine
\* draws of the generator, in call order.
SinNames == {"blink", "yaw", "pitch", "roll", "gazeX", "gazeY", "handL",
             "handR", "sway"}
DrawCount == 9

\* The pose updateLoop publishes: sn[c] is the value of the sinusoid of
\* channel c at this timestamp, rn[k] the k-th value drawn from the
\* generator (rn[1] is blinkSpeed, which is not used).
ComposePose(mouth, width, emo, sn, rn) ==
    LET blink == clamp(Mul(Pow12(Abs(sn["blink"])), 800 + Mul(rn[3], 400)),
                       0, 1000)
        emotionInfluence == emo.handAmplitude
    IN  [mouthOpen |-> mouth,
         mouthWidth |-> width,
         blink |-> Mul(blink, 1000 - Mul(emo.gazeIntensity, 200)),
         eyebrowLift |-> emo.browLift + Mul(mouth, 250),
         headYaw |-> Mul(sn["yaw"], 250)
                     + Mul(Mul(mouth, 80), emo.gazeIntensity + 200),
         headPitch |-> Mul(sn["pitch"], 180) + (Mul(emo.browLift, 150) - 50),
         headRoll |-> Mul(sn["roll"], 140),
         gazeX |-> Mul(Mul(sn["gazeX"], 450), emo.gazeIntensity + 300),
         gazeY |-> Mul(Mul(sn["gazeY"], 350), emo.gazeIntensity + 200),
         handLeft |-> Mul(mouth, 500 + emotionInfluence)
                      + Mul(sn["handL"], 200),
         handRight |-> Mul(mouth, 450 + Mul(emotionInfluence, 1100))
                       + Mul(sn["handR"], 250),
         bodySway |-> Mul(sn["sway"], 250) + Mul(mouth, 200)]

\* audio driver: the mouth signal from the RMS energy of the sample buffer
AudioMouth(rms, emo) ==
    [mouth |-> clamp(rms * 4 + Mul(emo.mouthEnergy, 350), 50, 1000),
     width |-> clamp(Mul(rms, 2800) + 250, 50, 900)]

\* text driver: the sample of an empty timeline is the fixed idle value; the
\* sample v of a synthesized one is a frame or an interpolation of two
sampleViseme(timeline, v) ==
    IF timeline.frames = 0 THEN [mouth |-> 100, width |-> 300] ELSE v

-----------------------------------------------------------------------------
(* The engine state as one value, and the handlers as functions of it *)

Cur ==
    [isSpeaking |-> isSpeaking, hasAudioLoaded |-> hasAudioLoaded,
     lipState |-> lipState, modeRef |-> modeRef, rafRef |-> rafRef,
     sinceStart |-> sinceStart, visemeTimelineRef |-> visemeTimelineRef,
     visemeDurationRef |-> visemeDurationRef,
     exportResolveRef |-> exportResolveRef,
     audioContextRef |-> audioContextRef, analyserRef |-> analyserRef,
     ttsUtteranceRef |-> ttsUtteranceRef, stageCanvasRef |-> stageCanvasRef,
     rafPending |-> rafPending, ttsSpeaking |-> ttsSpeaking,
     audioPaused |-> audioPaused, audioPos |-> audioPos,
     audioOnEnded |-> audioOnEnded, starts |-> starts, exports |-> exports,
     mounted |-> mounted, objectUrlRef |-> objectUrlRef,
     objectUrls |-> objectUrls, audioGraph |-> audioGraph]

Commit(s) ==
    /\ isSpeaking' = s.isSpeaking
    /\ hasAudioLoaded' = s.hasAudioLoaded
    /\ lipState' = s.lipState
    /\ modeRef' = s.modeRef
    /\ rafRef' = s.rafRef
    /\ sinceStart' = s.sinceStart
    /\ visemeTimelineRef' = s.visemeTimelineRef
    /\ visemeDurationRef' = s.visemeDurationRef
    /\ exportResolveRef' = s.exportResolveRef
    /\ audioContextRef' = s.audioContextRef
    /\ analyserRef' = s.analyserRef
    /\ ttsUtteranceRef' = s.ttsUtteranceRef
    /\ stageCanvasRef' = s.stageCanvasRef
    /\ rafPending' = s.rafPending
    /\ ttsSpeaking' = s.ttsSpeaking
    /\ audioPaused' = s.audioPaused
    /\ audioPos' = s.audioPos
    /\ audioOnEnded' = s.audioOnEnded
    /\ starts' = s.starts
    /\ exports' = s.exports
    /\ mounted' = s.mounted
    /\ objectUrlRef' = s.objectUrlRef
    /\ objectUrls' = s.objectUrls
    /\ audioGraph' = s.audioGraph

\* cancelAnimationFrame(id): the callback is no longer registered
cancelAnimationFrame(pending, id) == pending \ {id}

cleanupRAF(s) ==
    IF s.rafRef # 0
    THEN [s EXCEPT !.rafPending = cancelAnimationFrame(s.rafPending, s.rafRef),
                   !.rafRef = 0]
    ELSE s

\* The handle requestAnimationFrame returns: non-zero and distinct from those
\* of the callbacks still registered. The only holder of a handle is rafRef,
\* which the caller overwrites, so the least free handle stands for a fresh
\* one.
FreshHandle(pending) ==
    CHOOSE id \in 1..(Cardinality(pending) + 1) :
        /\ id \notin pending
        /\ \A j \in 1..(id - 1) : j \in pending

\* rafRef.current = requestAnimationFrame(updateLoop)
armClock(s) ==
    LET id == FreshHandle(s.rafPending)
    IN  [s EXCEPT !.rafPending = @ \cup {id}, !.rafRef = id]

\* window.speechSynthesis.cancel(): the utterance being spoken stops, and no
\* end event is delivered for it
stopSpeechSynthesis(s) ==
    IF ~ttsSupported THEN s
    ELSE IF s.ttsUtteranceRef
         THEN [s EXCEPT !.ttsSpeaking = FALSE, !.ttsUtteranceRef = FALSE]
         ELSE s

\* A startPreview call whose awaited promise rejects throws; the exportVideo
\* call awaiting it throws with it.
throwStarts(s, failed) ==
    [s EXCEPT !.starts = @ \ failed,
              !.exports = [e \in DOMAIN @ |->
                  IF \E st \in failed : st.owner = e
                  THEN [@[e] EXCEPT !.pc = "threw"]
                  ELSE @[e]]]

\* audio.pause(): nothing when already paused; otherwise the element is
\* paused and the pending play() promises are rejected
audioPause(s) ==
    IF s.audioPaused THEN s
    ELSE throwStarts([s EXCEPT !.audioPaused = TRUE],
                     {st \in s.starts : st.stage = "play"})

\* exportResolveRef.current?.(); exportResolveRef.current = null
resolveExportWait(s) ==
    IF s.exportResolveRef # 0
    THEN [s EXCEPT !.exports[s.exportResolveRef].resolved = TRUE,
                   !.exportResolveRef = 0]
    ELSE s

shutdownPlayback(s) ==
    LET s1 == cleanupRAF(s)
        s2 == stopSpeechSynthesis(s1)
        s3 == audioPause(s2)
        s4 == [s3 EXCEPT !.audioPos = 0]
        s5 == [s4 EXCEPT !.isSpeaking = FALSE]
    IN  resolveExportWait(s5)

stopPreview(s) ==
    LET s1 == shutdownPlayback(s)
    IN  [s1 EXCEPT !.lipState = resetLipState(@)]

\* nothing of the audio graph has been created
NoAudioGraph == [contexts |-> 0, sources |-> 0, analysers |-> 0]

\* an ensureAnalyser that builds a source and an analyser on every call
ensureAnalyser_Rebuild(s, ctxState) ==
    LET s1 == IF s.audioContextRef = "none"
              THEN [s EXCEPT !.audioContextRef = ctxState,
                             !.audioGraph.contexts = @ + 1]
              ELSE s
    IN  [s1 EXCEPT !.analyserRef = TRUE,
                   !.audioGraph.sources = @ + 1,
                   !.audioGraph.analysers = @ + 1]

\* ensureAnalyser: the audio context, the media-element source and the
\* analyser are created on first use; ctxState is the state the browser gives
\* a new context
ensureAnalyser(s, ctxState) ==
    LET s1 == IF s.audioContextRef = "none"
              THEN [s EXCEPT !.audioContextRef = ctxState,
                             !.audioGraph.contexts = @ + 1]
              ELSE s
    IN  IF ~s1.analyserRef
        THEN [s1 EXCEPT !.analyserRef = TRUE,
                        !.audioGraph.sources = @ + 1,
                        !.audioGraph.analysers = @ + 1]
        ELSE s1

FreshStart(ss) ==
    CHOOSE id \in 1..(Cardinality(ss) + 1) :
        /\ \A st \in ss : st.id # id
        /\ \A j \in 1..(id - 1) : \E st \in ss : st.id = j

\* the call is suspended at an await
suspendStart(s, id, stage, owner) ==
    [s EXCEPT !.starts = @ \cup {[id |-> id, stage |-> stage, owner |-> owner]}]

\* audio.currentTime = 0; await audio.play()
beginPlay(s, id, owner) ==
    suspendStart([s EXCEPT !.audioPos = 0, !.audioPaused = FALSE],
                 id, "play", owner)

\* startPreview up to its first await or its return. sm is
\* options.sourceMode ("default" when absent), owner the exportVideo call
\* awaiting it (0 for a call of the caller's own).
startPreview(s, sm, forceRestart, fromExport, owner, ctxState) ==
    LET sourceMode == IF sm = "default" THEN s.modeRef ELSE sm
        s1 == [s EXCEPT !.modeRef = sourceMode]
        s2 == IF ~fromExport
              THEN [s1 EXCEPT !.lipState = resetLipState(@)]
              ELSE s1
    IN  IF ~forceRestart /\ s.isSpeaking THEN s2
        ELSE
        LET s3 == cleanupRAF(s2)
            s4 == [s3 EXCEPT !.sinceStart = 0]
        IN  IF sourceMode = "audio"
            THEN LET s5 == ensureAnalyser(s4, ctxState)
                 IN  IF ~s5.analyserRef \/ ~s5.hasAudioLoaded THEN s5
                     ELSE IF s5.audioContextRef = "suspended"
                          THEN suspendStart(s5, FreshStart(s5.starts),
                                            "resume", owner)
                          ELSE beginPlay(s5, FreshStart(s5.starts), owner)
            ELSE IF ~ttsSupported THEN s4
                 ELSE
                 LET s5 == stopSpeechSynthesis(s4)
                     text == SpokenText(script)
                     tl == buildVisemeTimeline(text, emotion, seed)
                     s6 == [s5 EXCEPT !.visemeTimelineRef = tl,
                                      !.visemeDurationRef = tl.duration,
                                      !.ttsUtteranceRef = TRUE,
                                      !.ttsSpeaking = TRUE]
                     s7 == [s6 EXCEPT !.isSpeaking = TRUE]
                 IN  armClock(s7)

\* exportVideo after its awaited startPreview has returned: the capture
\* window is armed
armWindow(s, e) ==
    [s EXCEPT !.exports[e].pc = "window",
              !.exports[e].remaining = EXPORT_DURATION_MS]

\* startPreview after await ctx.resume()
afterResume(s, st) ==
    beginPlay([s EXCEPT !.starts = @ \ {st}, !.audioContextRef = "running"],
              st.id, st.owner)

\* startPreview after await audio.play(), and the exportVideo awaiting it
afterPlay(s, st) ==
    LET s1 == [s EXCEPT !.starts = @ \ {st}, !.isSpeaking = TRUE]
        s2 == armClock(s1)
        s3 == [s2 EXCEPT !.audioOnEnded = TRUE]
    IN  IF st.owner # 0 THEN armWindow(s3, st.owner) ELSE s3

RECURSIVE afterPlayAll(_, _)
\* the pending play() promises are resolved together
afterPlayAll(s, sts) ==
    IF sts = {} THEN s
    ELSE LET st == CHOOSE x \in sts : \A y \in sts : x.id <= y.id
         IN  afterPlayAll(afterPlay(s, st), sts \ {st})

\* what the transcoding collaborator does: it re-encodes the clip, or its
\* import, its load or its run throws
TranscodeOutcomes == {"ok", "importFails", "loadFails", "runFails"}

\* a conversion whose catch gives the clip up
convertWebmToMp4_NoFallback(outcome) ==
    IF outcome = "ok" THEN "mp4" ELSE "null"

\* convertWebmToMp4: every throw inside the try is caught and the raw clip
\* returned
convertWebmToMp4(outcome) ==
    IF outcome = "importFails" THEN "webm"
    ELSE IF outcome = "loadFails" THEN "webm"
    ELSE IF outcome = "runFails" THEN "webm"
    ELSE "mp4"

\* a loop that publishes the pose of the frame on which it ends the session
updateLoop_PublishThenEnd(s, rms, v, sn, rn) ==
    LET audioDriven == s.modeRef = "audio" /\ s.analyserRef
        m == IF audioDriven THEN AudioMouth(rms, emotion)
             ELSE sampleViseme(s.visemeTimelineRef, v)
        s1 == [s EXCEPT !.lipState =
                  ComposePose(m.mouth, m.width, emotion, sn, rn)]
    IN  IF /\ ~audioDriven
           /\ s.visemeDurationRef # 0
           /\ s.sinceStart * 1000 > s.visemeDurationRef + 400000
        THEN shutdownPlayback(s1)
        ELSE armClock(s1)

\* a loop that publishes its pose and registers no next frame
updateLoop_NoRearm(s, rms, v, sn, rn) ==
    LET audioDriven == s.modeRef = "audio" /\ s.analyserRef
        m == IF audioDriven THEN AudioMouth(rms, emotion)
             ELSE sampleViseme(s.visemeTimelineRef, v)
    IN  IF /\ ~audioDriven
           /\ s.visemeDurationRef # 0
           /\ s.sinceStart * 1000 > s.visemeDurationRef + 400000
        THEN shutdownPlayback(s)
        ELSE [s EXCEPT !.lipState =
                 ComposePose(m.mouth, m.width, emotion, sn, rn)]

\* updateLoop(timestamp) with the inputs of this frame: rms of the sample
\* buffer, v the timeline sample, sn and rn as in ComposePose
updateLoop(s, rms, v, sn, rn) ==
    LET elapsed == s.sinceStart
        audioDriven == s.modeRef = "audio" /\ s.analyserRef
        m == IF audioDriven THEN AudioMouth(rms, emotion)
             ELSE sampleViseme(s.visemeTimelineRef, v)
    IN  IF /\ ~audioDriven
           /\ s.visemeDurationRef # 0
           /\ elapsed * 1000 > s.visemeDurationRef + 400000
        THEN shutdownPlayback(s)
        ELSE armClock([s EXCEPT !.lipState =
                          ComposePose(m.mouth, m.width, emotion, sn, rn)])

-----------------------------------------------------------------------------
(* Inputs *)

Neutral == [mouthEnergy |-> 500, handAmplitude |-> 0, gazeIntensity |-> 0,
            browLift |-> 0]
Excited == [mouthEnergy |-> 1000, handAmplitude |-> 1000,
            gazeIntensity |-> 1000, browLift |-> 1000]
Emotions == {Neutral, Excited}

HeyThere == <<"H","e","y"," ","t","h","e","r","e">>
Scripts == {<<>>, HeyThere}

\* Math.random(), in thousandths
Seeds == {250, 750}

Modes == {"text", "audio"}

\* the props of the mounted hook and whether the browser has speech synthesis
InitialProps ==
    {[script |-> HeyThere, emotion |-> Neutral, ttsSupported |-> TRUE],
     [script |-> <<>>, emotion |-> Excited, ttsSupported |-> TRUE],
     [script |-> HeyThere, emotion |-> Excited, ttsSupported |-> FALSE]}

\* what one frame reads from its environment: silence with every sinusoid
\* and draw at its least value, clipping with each at its greatest
FrameInputs ==
    {[rms |-> 0, v |-> [mouth |-> 50, width |-> 50],
      sn |-> [c \in SinNames |-> -1000], rn |-> [k \in 1..DrawCount |-> 0]],
     [rms |-> 1000, v |-> [mouth |-> 1000, width |-> 950],
      sn |-> [c \in SinNames |-> 1000], rn |-> [k \in 1..DrawCount |-> 999]]}

\* the presets of the page, the first being the one selected at mount
AvatarPresets == <<"preset-1", "preset-2">>

\* the avatar source of the page at mount: no custom portrait (0 stands for
\* null), the first preset, no object URL created
NoStudio == [customImage |-> 0, selectedPreset |-> AvatarPresets[1],
             imageUrls |-> <<>>, mounted |-> TRUE]

\* no call of the synthesizer or the sampler has been made
NoProbe == [randomRef |-> 0, draws |-> 0, first |-> <<>>, second |-> <<>>,
            elapsed |-> -1, sample |-> <<>>]

NoExport == [pc |-> "idle", remaining |-> 0, recorder |-> "none",
             capture |-> "unused", audioTrack |-> FALSE,
             resolved |-> FALSE, chunks |-> 0, clip |-> -1,
             transcoder |-> "none", result |-> "none"]

-----------------------------------------------------------------------------
(* The state after the hook has mounted *)

Init ==
    /\ calls = 0
    /\ sinceStart = 0
    /\ \E p \in InitialProps :
           /\ script = p.script
           /\ emotion = p.emotion
           /\ ttsSupported = p.ttsSupported
    /\ seed \in {s \in Seeds : \A s2 \in Seeds : s <= s2}
    /\ isSpeaking = FALSE
    /\ hasAudioLoaded = FALSE
    /\ lipState = initialLipState
    /\ modeRef = "text"
    /\ rafRef = 0
    /\ visemeTimelineRef = NoTimeline
    /\ visemeDurationRef = 0
    /\ exportResolveRef = 0
    /\ audioContextRef = "none"
    /\ analyserRef = FALSE
    /\ ttsUtteranceRef = FALSE
    /\ stageCanvasRef = FALSE
    /\ rafPending = {}
    /\ ttsSpeaking = FALSE
    /\ audioPaused = TRUE
    /\ audioPos = 0
    /\ audioOnEnded = FALSE
    /\ starts = {}
    /\ exports = [e \in 1..MaxCalls |-> NoExport]
    /\ mounted = TRUE
    /\ objectUrlRef = 0
    /\ objectUrls = <<>>
    /\ audioGraph = NoAudioGraph
    /\ probe = NoProbe
    /\ studio = NoStudio

Props == <<script, emotion, seed, ttsSupported>>

\* an event of a collaborator runs a handler of the engine
Step(s) ==
    /\ Commit(s)
    /\ UNCHANGED <<Props, calls, probe, studio>>

\* the caller invokes an operation of the engine
Call(s) ==
    /\ calls' = calls + 1
    /\ Commit(s)
    /\ UNCHANGED <<Props, probe, studio>>

-----------------------------------------------------------------------------
(* Operations of the engine *)

\* the state the browser may give a newly created audio context
ContextStates == {"suspended", "running"}

StartPreview(sm, forceRestart) ==
    /\ calls < MaxCalls
    /\ mounted
    /\ \E ctxState \in ContextStates :
           Call(startPreview(Cur, sm, forceRestart, FALSE, 0, ctxState))

StopPreview ==
    /\ calls < MaxCalls
    /\ mounted
    /\ Call(stopPreview(Cur))

\* URL.revokeObjectURL(objectUrlRef.current) when the ref holds a URL
revokeObjectUrl(s) ==
    IF s.objectUrlRef # 0
    THEN [s EXCEPT !.objectUrls[s.objectUrlRef] = @ + 1]
    ELSE s

\* a loadAudioFile that does not revoke the URL it replaces
loadAudioFile_NoRevoke(s) ==
    LET s1 == [s EXCEPT !.objectUrls = Append(@, 0),
                        !.objectUrlRef = Len(s.objectUrls) + 1]
        s2 == audioPause(s1)
    IN  [s2 EXCEPT !.audioPos = 0, !.hasAudioLoaded = TRUE]

\* the URL held is revoked and a new one created for the file;
\* audio.src = objectUrl; audio.load() resets the element (paused, at 0,
\* pending play() promises rejected); setHasAudioLoaded(true)
loadAudioFile(s) ==
    LET s0 == revokeObjectUrl(s)
        s1 == [s0 EXCEPT !.objectUrls = Append(@, 0),
                         !.objectUrlRef = Len(s0.objectUrls) + 1]
        s2 == audioPause(s1)
    IN  [s2 EXCEPT !.audioPos = 0, !.hasAudioLoaded = TRUE]

LoadAudioFile ==
    /\ calls < MaxCalls
    /\ mounted
    /\ Call(loadAudioFile(Cur))

\* the hook unmounts; the cleanups of its effects run in the order of the
\* effects: the audio element's (audio.pause(); audio.src = ""), the one
\* that is shutdownPlayback, and the one that revokes the URL held
unmount(s) ==
    LET s1 == audioPause(s)
        s2 == [s1 EXCEPT !.audioPos = 0]
        s3 == shutdownPlayback(s2)
        s4 == revokeObjectUrl(s3)
    IN  [s4 EXCEPT !.mounted = FALSE]

\* teardown of the engine; no operation is invoked on it afterwards
Unmount ==
    /\ mounted
    /\ Step(unmount(Cur))

RegisterStageCanvas(canvas) ==
    /\ calls < MaxCalls
    /\ mounted
    /\ stageCanvasRef # canvas
    /\ Call([Cur EXCEPT !.stageCanvasRef = canvas])

\* what capturing the audio element's stream does in an audio-mode export:
\* it yields an audio track, it yields a stream without audio tracks (or the
\* element has no captureStream), or it throws
CaptureOutcomes == {"track", "none", "throws"}

\* an exportVideo whose capture of the audio stream is not inside a try
exportVideo_CaptureUncaught(s, e, ctxState, capture) ==
    IF ~s.stageCanvasRef
    THEN [s EXCEPT !.exports[e].pc = "returned", !.exports[e].result = "null"]
    ELSE IF s.modeRef = "audio" /\ capture = "throws"
    THEN [s EXCEPT !.exports[e].capture = capture, !.exports[e].pc = "threw"]
    ELSE LET s0 == IF s.modeRef = "audio"
                   THEN [s EXCEPT !.exports[e].capture = capture,
                                  !.exports[e].audioTrack = (capture = "track")]
                   ELSE s
             s1 == [s0 EXCEPT !.exports[e].recorder = "recording",
                              !.exportResolveRef = e]
             s2 == startPreview(s1, "default", TRUE, TRUE, e, ctxState)
         IN  IF \E st \in s2.starts : st.owner = e
             THEN [s2 EXCEPT !.exports[e].pc = "starting"]
             ELSE armWindow(s2, e)

\* exportVideo up to its first pending await, as call number e. In audio
\* mode the audio element's stream is captured inside a try whose catch is
\* empty, and its track added to the recorded stream when there is one.
exportVideo(s, e, ctxState, capture) ==
    IF ~s.stageCanvasRef
    THEN [s EXCEPT !.exports[e].pc = "returned", !.exports[e].result = "null"]
    ELSE LET s0 == IF s.modeRef = "audio"
                   THEN [s EXCEPT !.exports[e].capture = capture,
                                  !.exports[e].audioTrack = (capture = "track")]
                   ELSE s
             s1 == [s0 EXCEPT !.exports[e].recorder = "recording",
                              !.exportResolveRef = e]
             s2 == startPreview(s1, "default", TRUE, TRUE, e, ctxState)
         IN  IF \E st \in s2.starts : st.owner = e
             THEN [s2 EXCEPT !.exports[e].pc = "starting"]
             ELSE armWindow(s2, e)

ExportVideo ==
    \E e \in 1..MaxCalls, ctxState \in ContextStates,
       capture \in CaptureOutcomes :
        /\ calls < MaxCalls
        /\ mounted
        /\ exports[e].pc = "idle"
        /\ \A j \in 1..(e - 1) : exports[j].pc # "idle"
        /\ Call(exportVideo(Cur, e, ctxState, capture))

\* the capture window of call e expires: recorder.stop(); shutdownPlayback();
\* await exportPromise; new Blob(chunks). The await continues in the same
\* task when the promise is resolved, and never when its resolver is lost.
exportWindowExpired(s, e) ==
    LET s1 == [s EXCEPT !.exports[e].recorder = "stopping"]
        s2 == shutdownPlayback(s1)
    IN  IF s2.exports[e].resolved
        THEN [s2 EXCEPT !.exports[e].clip = s2.exports[e].chunks,
                        !.exports[e].pc = "transcoding"]
        ELSE [s2 EXCEPT !.exports[e].pc = "waiting"]

ExportWindowExpired(e) ==
    /\ exports[e].pc = "window"
    /\ exports[e].remaining = 0
    /\ Step(exportWindowExpired(Cur, e))

\* recorder.ondataavailable: a chunk with data is pushed
ondataavailable(s, e, size) ==
    IF size > 0 THEN [s EXCEPT !.exports[e].chunks = @ + 1] ELSE s

\* the recorder, told to stop, delivers the data it gathered in a later task
DataAvailable(e, size) ==
    /\ exports[e].recorder = "stopping"
    /\ Step(ondataavailable([Cur EXCEPT !.exports[e].recorder = "inactive"],
                            e, size))

\* return convertWebmToMp4()
Transcode(e, outcome) ==
    /\ exports[e].pc = "transcoding"
    /\ Step([Cur EXCEPT !.exports[e].pc = "returned",
                        !.exports[e].transcoder = outcome,
                        !.exports[e].result = convertWebmToMp4(outcome)])

\* onRegenerate of the page: setSeed(Math.random()), and when the page is
\* previewing a forced restart through the startPreview of the current
\* render, whose closure holds the seed of that render. previewing is
\* isPreviewing, state of the page that the engine does not determine.
onRegenerate(s, voiceMode, previewing, ctxState) ==
    IF ~previewing THEN s
    ELSE IF voiceMode = "text" /\ ~ttsSupported THEN s
    ELSE IF voiceMode = "audio" /\ ~s.hasAudioLoaded THEN s
    ELSE startPreview(s, voiceMode, TRUE, FALSE, 0, ctxState)

Regenerate(voiceMode, previewing) ==
    /\ calls < MaxCalls
    /\ mounted
    /\ \E sd \in Seeds \ {seed}, ctxState \in ContextStates :
           /\ seed' = sd
           /\ calls' = calls + 1
           /\ Commit(onRegenerate(Cur, voiceMode, previewing, ctxState))
           /\ UNCHANGED <<script, emotion, ttsSupported, probe, studio>>

-----------------------------------------------------------------------------
(* Events of the collaborators *)

Advance ==
    \E dt \in ClockSteps :
        /\ sinceStart' = IF sinceStart + dt < HorizonMs
                         THEN sinceStart + dt ELSE HorizonMs
        /\ exports' = [e \in DOMAIN exports |->
               IF exports[e].pc = "window"
               THEN [exports[e] EXCEPT !.remaining =
                        IF @ > dt THEN @ - dt ELSE 0]
               ELSE exports[e]]
        /\ audioPos' = IF ~audioPaused /\ \A st \in starts : st.stage # "play"
                       THEN 1 ELSE audioPos
        /\ UNCHANGED <<calls, Props, probe, studio, isSpeaking, hasAudioLoaded, lipState, modeRef,
                       rafRef, visemeTimelineRef,
                       visemeDurationRef, exportResolveRef, audioContextRef,
                       analyserRef, ttsUtteranceRef, stageCanvasRef,
                       rafPending, ttsSpeaking, audioPaused, audioOnEnded,
                       starts, mounted, objectUrlRef, objectUrls,
                       audioGraph>>

\* the browser runs a registered animation-frame callback
Tick(id) ==
    /\ id \in rafPending
    /\ \E in \in FrameInputs :
           Step(updateLoop([Cur EXCEPT !.rafPending = @ \ {id}],
                           in.rms, in.v, in.sn, in.rn))

\* utterance.onend
UtteranceEnd ==
    /\ ttsSpeaking
    /\ Step(shutdownPlayback([Cur EXCEPT !.ttsSpeaking = FALSE]))

\* playback reaches the end of the media: the element pauses at the end and
\* audio.onended runs when it is set
AudioEnded ==
    /\ ~audioPaused
    /\ \A st \in starts : st.stage # "play"
    /\ LET s1 == [Cur EXCEPT !.audioPaused = TRUE, !.audioPos = 1]
       IN  Step(IF audioOnEnded THEN shutdownPlayback(s1) ELSE s1)

ResumeResolved(id) ==
    \E st \in starts :
        /\ st.id = id
        /\ st.stage = "resume"
        /\ Step(afterResume(Cur, st))

PlayResolved ==
    LET sts == {st \in starts : st.stage = "play"}
    IN  /\ sts # {}
        /\ Step(afterPlayAll(Cur, sts))

Next ==
    \/ Advance
    \/ \E sm \in Modes, f \in BOOLEAN : StartPreview(sm, f)
    \/ StopPreview
    \/ LoadAudioFile
    \/ Unmount
    \/ \E c \in BOOLEAN : RegisterStageCanvas(c)
    \/ ExportVideo
    \/ \E vm \in Modes, p \in BOOLEAN : Regenerate(vm, p)
    \/ \E e \in 1..MaxCalls : ExportWindowExpired(e)
    \/ \E e \in 1..MaxCalls, size \in {0, 1} : DataAvailable(e, size)
    \/ \E e \in 1..MaxCalls, o \in TranscodeOutcomes : Transcode(e, o)
    \/ \E id \in 1..MaxCalls : Tick(id)
    \/ UtteranceEnd
    \/ AudioEnded
    \/ \E id \in 1..MaxCalls : ResumeResolved(id)
    \/ PlayResolved

Spec == Init /\ [][Next]_vars

-----------------------------------------------------------------------------
(* The synthesizer and the sampler on their own: the text, the emotion and  *)
(* the seed are drawn, buildVisemeTimeline is called on them twice with     *)
(* draws from the hook's shared generator (randomRef) in between, and the   *)
(* first timeline is sampled.                                               *)

Gesturing == [mouthEnergy |-> 500, handAmplitude |-> 1000,
              gazeIntensity |-> 0, browLift |-> 0]
Flat == [mouthEnergy |-> 0, handAmplitude |-> 0, gazeIntensity |-> 0,
         browLift |-> 0]
SynthEmotions == {Neutral, Excited, Gesturing, Flat}

SynthTexts == {<<>>, <<" ", "\t">>, HeyThere, <<"m", "m">>}

\* the elapsed times the sampler is asked for: the start, between two
\* frames, the last frame, the duration, and past the trailing buffer
SampleTimes(tl) ==
    {0, 25000, tl.frames[Len(tl.frames)].time, tl.duration,
     tl.duration + 400000}

SynthInit ==
    /\ calls = 0
    /\ sinceStart = 0
    /\ script \in SynthTexts
    /\ emotion \in SynthEmotions
    /\ seed \in Seeds
    /\ ttsSupported = TRUE
    /\ isSpeaking = FALSE
    /\ hasAudioLoaded = FALSE
    /\ lipState = initialLipState
    /\ modeRef = "text"
    /\ rafRef = 0
    /\ visemeTimelineRef = NoTimeline
    /\ visemeDurationRef = 0
    /\ exportResolveRef = 0
    /\ audioContextRef = "none"
    /\ analyserRef = FALSE
    /\ ttsUtteranceRef = FALSE
    /\ stageCanvasRef = FALSE
    /\ rafPending = {}
    /\ ttsSpeaking = FALSE
    /\ audioPaused = TRUE
    /\ audioPos = 0
    /\ audioOnEnded = FALSE
    /\ starts = {}
    /\ exports = [e \in 1..MaxCalls |-> NoExport]
    /\ mounted = TRUE
    /\ objectUrlRef = 0
    /\ objectUrls = <<>>
    /\ audioGraph = NoAudioGraph
    \* randomRef after the effect that re-seeds it: the value, before its
    \* first draw, of the generator of seed + mouthEnergy * 100
    /\ probe = [NoProbe EXCEPT !.randomRef =
                    (seed + emotion.mouthEnergy * 100) * 10000]
    /\ studio = NoStudio

Engine == <<calls, sinceStart, Props, isSpeaking, hasAudioLoaded, lipState,
            modeRef, rafRef, visemeTimelineRef, visemeDurationRef,
            exportResolveRef, audioContextRef, analyserRef, ttsUtteranceRef,
            stageCanvasRef, rafPending, ttsSpeaking, audioPaused, audioPos,
            audioOnEnded, starts, exports, mounted, objectUrlRef,
            objectUrls, audioGraph>>

\* buildVisemeTimeline(text, emotion, seed), first call
Synthesize ==
    /\ probe.first = <<>>
    /\ probe' = [probe EXCEPT !.first =
                     buildVisemeFrames(script, emotion, seed)]
    /\ UNCHANGED <<Engine, studio>>

\* a frame of the hook draws from the shared generator: random()
DrawShared ==
    /\ probe.draws < MaxDraws
    /\ probe.second = <<>>
    /\ probe.sample = <<>>
    /\ probe' = [probe EXCEPT !.randomRef = NextValue(@), !.draws = @ + 1]
    /\ UNCHANGED <<Engine, studio>>

\* buildVisemeTimeline(text, emotion, seed), a later call
SynthesizeAgain ==
    /\ probe.first # <<>>
    /\ probe.second = <<>>
    /\ probe.sample = <<>>
    /\ probe' = [probe EXCEPT !.second =
                     buildVisemeFrames(script, emotion, seed)]
    /\ UNCHANGED <<Engine, studio>>

\* sampleViseme(frames, elapsed) on the first timeline
Sample ==
    /\ probe.first # <<>>
    /\ probe.second = <<>>
    /\ \E t \in SampleTimes(probe.first) :
           probe' = [probe EXCEPT !.elapsed = t,
                        !.sample = sampleVisemeAt(probe.first.frames, t)]
    /\ UNCHANGED <<Engine, studio>>

SynthNext == Synthesize \/ DrawShared \/ SynthesizeAgain \/ Sample

SynthSpec == SynthInit /\ [][SynthNext]_vars

-----------------------------------------------------------------------------
(* Sanity of the clock abstraction *)

\* Every timeline a session can hold ends, with its trailing 0.4 s, before
\* the horizon: an age at the horizon is past the end of every timeline.
HorizonCoversTimelines ==
    visemeDurationRef + 400000 < HorizonMs * 1000

-----------------------------------------------------------------------------
(* Properties *)

\* a session is playing in the given mode
Playing(mode) == isSpeaking /\ modeRef = mode

\* C1: in every reachable state at most one animation-frame callback is
\* registered for the engine.
C1_AtMostOneClock == Cardinality(rafPending) <= 1

\* C2: while a session is playing, startPreview without forceRestart is a
\* no-op whatever its sourceMode: mode, start timestamp, timeline, clock
\* registration, playing flag and pose are as before the call.
C2_UnforcedStartIsNoOp ==
    isSpeaking =>
        \A sm \in Modes, ctxState \in ContextStates :
            LET s == startPreview(Cur, sm, FALSE, FALSE, 0, ctxState)
            IN  /\ s.modeRef = modeRef
                /\ s.sinceStart = sinceStart
                /\ s.visemeTimelineRef = visemeTimelineRef
                /\ s.visemeDurationRef = visemeDurationRef
                /\ s.rafRef = rafRef
                /\ s.rafPending = rafPending
                /\ s.isSpeaking = isSpeaking
                /\ s.lipState = lipState

\* the requested mode's driver is not ready
PreconditionFails(sm) ==
    \/ sm = "audio" /\ ~hasAudioLoaded
    \/ sm = "text" /\ ~ttsSupported

\* C3: when the requested mode's precondition fails, startPreview, forced or
\* not, playing or not, leaves mode, clock registration, start timestamp,
\* timeline, playing flag and pose as before the call.
C3_RefusedStartChangesNothing ==
    \A sm \in Modes, f \in BOOLEAN, ctxState \in ContextStates :
        PreconditionFails(sm) =>
            LET s == startPreview(Cur, sm, f, FALSE, 0, ctxState)
            IN  /\ s.modeRef = modeRef
                /\ s.rafRef = rafRef
                /\ s.rafPending = rafPending
                /\ s.sinceStart = sinceStart
                /\ s.visemeTimelineRef = visemeTimelineRef
                /\ s.visemeDurationRef = visemeDurationRef
                /\ s.isSpeaking = isSpeaking
                /\ s.lipState = lipState

\* C4: a forced text-mode startPreview during a playing text session, with
\* speech available, cancels the registered clock, replaces the timeline by
\* the one synthesized from the current text, emotion and seed, does not
\* move the start timestamp back, and leaves exactly one clock registered.
C4_ForcedTextRestart ==
    (Playing("text") /\ ttsSupported) =>
        \A ctxState \in ContextStates :
            LET s == startPreview(Cur, "text", TRUE, FALSE, 0, ctxState)
            IN  /\ s.visemeTimelineRef =
                       buildVisemeTimeline(SpokenText(script), emotion, seed)
                /\ s.visemeDurationRef = s.visemeTimelineRef.duration
                /\ s.sinceStart <= sinceStart
                /\ s.isSpeaking
                /\ s.rafPending = {s.rafRef}

\* an exportVideo call is waiting for its export promise
WaitPending(s, e) ==
    s.exports[e].pc \in {"starting", "window", "waiting"}
        /\ ~s.exports[e].resolved

\* C5: right after stopPreview, from any reachable state, no clock callback
\* is registered, no utterance of the engine is in flight, the audio element
\* is paused at position 0, the playing flag is false and every pending
\* export wait is resolved and cleared.
C5_AfterStop ==
    LET s == stopPreview(Cur)
    IN  /\ s.rafPending = {}
        /\ s.rafRef = 0
        /\ ~s.ttsSpeaking
        /\ s.audioPaused /\ s.audioPos = 0
        /\ ~s.isSpeaking
        /\ s.exportResolveRef = 0
        /\ \A e \in 1..MaxCalls : ~WaitPending(s, e)

\* the state with the pose's mouth, hand and sway channels at their idle
\* values
WithIdlePose(s) == [s EXCEPT !.lipState = resetLipState(@)]

\* C6 as amended: stopping twice is stopping once, for stopPreview and for
\* the shutdown a completion signal runs; a completion signal's shutdown
\* after a manual stop changes nothing; a manual stop after a completion
\* signal's shutdown changes nothing but the pose's mouth, hand and sway
\* channels, which it resets to their idle values.
C6_StopIdempotent ==
    LET stopped == stopPreview(Cur)
        ended == shutdownPlayback(Cur)
    IN  /\ stopPreview(stopped) = stopped
        /\ shutdownPlayback(ended) = ended
        /\ shutdownPlayback(stopped) = stopped
        /\ stopPreview(ended) = WithIdlePose(ended)

\* C6 as stated: as above, but a manual stop after a completion signal has
\* shut a playing session down changes nothing at all.
C6_StopAfterSignalChangesNothing ==
    isSpeaking =>
        LET stopped == stopPreview(Cur)
            ended == shutdownPlayback(Cur)
        IN  /\ stopPreview(stopped) = stopped
            /\ shutdownPlayback(ended) = ended
            /\ shutdownPlayback(stopped) = stopped
            /\ stopPreview(ended) = ended

\* a session has played a frame and a stop then acts on it: the shutdown
\* cancels its clock and the stop resets its published pose
C6_Witness ==
    /\ isSpeaking
    /\ rafPending # {}
    /\ lipState # resetLipState(lipState)
    /\ shutdownPlayback(Cur) # Cur
    /\ stopPreview(shutdownPlayback(Cur)) # shutdownPlayback(Cur)

\* C7: every exportVideo call that found a drawing surface gets past its
\* capture window: when the window has expired the session is stopped and
\* the export wait is resolved, so the call goes on to transcode and return;
\* it is never left waiting for its export promise or ended by a throw.
C7_ExportGetsPastWindow ==
    \A e \in 1..MaxCalls : exports[e].pc \notin {"waiting", "threw"}

\* C8: at most one recorder is recording and at most one export wait is
\* pending at any time.
C8_NoOverlappingExport ==
    /\ Cardinality({e \in 1..MaxCalls :
                       exports[e].recorder = "recording"}) <= 1
    /\ Cardinality({e \in 1..MaxCalls : WaitPending(Cur, e)}) <= 1

\* C9: an exportVideo call that captured a clip returns a clip whatever the
\* transcoder did: the re-encoded clip when it succeeded, the raw captured
\* clip when its import, load or run failed; the call does not throw after
\* the clip is assembled.
C9_TranscodeFallback ==
    \A e \in 1..MaxCalls :
        /\ exports[e].clip # -1 =>
               exports[e].pc \in {"transcoding", "returned"}
        /\ (exports[e].pc = "returned" /\ exports[e].clip # -1) =>
               /\ exports[e].result \in {"mp4", "webm"}
               /\ exports[e].transcoder = "ok" => exports[e].result = "mp4"
               /\ exports[e].transcoder # "ok" => exports[e].result = "webm"

\* an export has returned the raw clip after each kind of transcoder failure
\* is possible; this one after a failed run
C9_Witness ==
    \E e \in 1..MaxCalls :
        /\ exports[e].pc = "returned"
        /\ exports[e].clip # -1
        /\ exports[e].transcoder = "runFails"
        /\ exports[e].result = "webm"

\* C10: the raw clip is assembled only after the recorder has delivered its
\* final chunk, and holds every chunk the recorder delivered.
C10_ClipHoldsEveryChunk ==
    \A e \in 1..MaxCalls :
        exports[e].clip # -1 =>
            /\ exports[e].recorder = "inactive"
            /\ exports[e].clip = exports[e].chunks

\* C11: when regenerate is invoked while a text preview is playing and
\* restarts it, the timeline of the restarted session is synthesized from
\* the seed regenerate has just drawn.
C11_RegenerateUsesFreshSeed ==
    [][\A ctxState \in ContextStates :
          (/\ Playing("text") /\ ttsSupported
           /\ seed' # seed
           /\ Cur' = onRegenerate(Cur, "text", TRUE, ctxState))
          => visemeTimelineRef'.seed = seed']_vars

\* a session started in text mode is playing: it has its timeline
TextSession == isSpeaking /\ modeRef = "text" /\ visemeDurationRef # 0

\* the session is older than its timeline and the trailing 0.4 s
PastTimeline == sinceStart * 1000 > visemeDurationRef + 400000

\* what a registered callback does when the browser runs it with the inputs
\* of a frame
TickOf(id, in) ==
    updateLoop([Cur EXCEPT !.rafPending = @ \ {id}], in.rms, in.v, in.sn, in.rn)

\* C12: in a text session a tick past the timeline's duration plus 0.4 s
\* ends the session, registers no next tick and publishes no pose; a tick
\* before that publishes the pose of its frame, registers the next tick and
\* leaves the session playing.
C12_TextSessionEndsAtFirstLateTick ==
    TextSession =>
        \A id \in rafPending, in \in FrameInputs :
            LET s == TickOf(id, in)
            IN  IF PastTimeline
                THEN /\ ~s.isSpeaking
                     /\ s.rafRef = 0
                     /\ s.rafPending \subseteq rafPending \ {id}
                     /\ s.lipState = lipState
                ELSE /\ s.isSpeaking
                     /\ s.lipState = ComposePose(in.v.mouth, in.v.width,
                                                 emotion, in.sn, in.rn)
                     /\ s.rafRef \in s.rafPending
                     /\ s.rafRef \notin rafPending \ {id}

\* a text session that has published poses is past its timeline with its
\* clock registered: the next tick ends it
C12_Witness ==
    /\ TextSession /\ PastTimeline
    /\ rafRef \in rafPending
    /\ lipState # resetLipState(lipState)

\* the mouth signal of a frame: from the sample buffer in audio mode with an
\* analyser, from the timeline otherwise
Driver(in) ==
    IF modeRef = "audio" /\ analyserRef THEN AudioMouth(in.rms, emotion)
    ELSE sampleViseme(visemeTimelineRef, in.v)

\* the pose of a frame
PoseOf(in) == ComposePose(Driver(in).mouth, Driver(in).width, emotion,
                          in.sn, in.rn)

\* a tick now is the compositor's completion signal
Completes ==
    /\ ~(modeRef = "audio" /\ analyserRef)
    /\ visemeDurationRef # 0
    /\ PastTimeline

\* C13: a tick that does not signal completion publishes the pose of its
\* frame and registers exactly one next tick in place of itself; and the
\* clock of a session stops being registered only when the engine cancels
\* it (stop, restart, a completion signal's shutdown, the compositor's own
\* completion), which clears its handle.
C13_ClockSelfRescheduling ==
    /\ [](~Completes =>
            \A id \in rafPending, in \in FrameInputs :
                LET s == TickOf(id, in)
                IN  /\ s.lipState = PoseOf(in)
                    /\ s.rafRef \notin rafPending \ {id}
                    /\ s.rafPending = (rafPending \ {id}) \cup {s.rafRef}
                    /\ s.isSpeaking = isSpeaking)
    /\ [][(rafRef \in rafPending /\ rafRef' \notin rafPending')
             => rafRef' = 0]_vars

\* a playing session whose last tick has published the pose of its frame and
\* registered the next tick
C13_Witness ==
    /\ isSpeaking /\ ~Completes
    /\ rafRef \in rafPending
    /\ \E in \in FrameInputs : lipState = PoseOf(in)

\* C14: every channel of the published pose lies within its declared range:
\* mouthOpen, mouthWidth, blink, eyebrowLift, handLeft and handRight in
\* [0, 1], headYaw, headPitch, headRoll, gazeX, gazeY and bodySway in [-1, 1].
C14_PoseChannelsInRange ==
    /\ \A c \in {"mouthOpen", "mouthWidth", "blink", "eyebrowLift",
                  "handLeft", "handRight"} :
           0 <= lipState[c] /\ lipState[c] <= 1000
    /\ \A c \in {"headYaw", "headPitch", "headRoll", "gazeX", "gazeY",
                  "bodySway"} :
           -1000 <= lipState[c] /\ lipState[c] <= 1000

\* the text has no character other than white space
Blank(text) == \A i \in 1..Len(text) : IsSpace(text[i])

\* C15: for every text and emotion, buildVisemeTimeline returns at least one
\* frame and a duration of at least 2.0 s, with floor(duration * 60) frames;
\* for an empty or blank text, the fallback of 2.5 s with 150 frames.
C15_TimelineNonEmpty ==
    probe.first # <<>> =>
        LET tl == probe.first
        IN  /\ Len(tl.frames) >= 1
            /\ tl.duration >= 2000000
            /\ Len(tl.frames) = (tl.duration * 60) \div 1000000
            /\ Blank(script) =>
                   (tl.duration = 2500000 /\ Len(tl.frames) = 150)

\* the synthesizer has returned the fallback for a blank text of two
\* characters
C15_Witness ==
    /\ probe.first # <<>>
    /\ Len(script) = 2 /\ Blank(script)
    /\ Len(probe.first.frames) = 150

C17_SamplerHoldsLastFrame ==
    (probe.sample # <<>> /\ probe.elapsed >= probe.first.duration) =>
        LET frames == probe.first.frames
            last == frames[Len(frames)]
        IN  /\ probe.sample = [mouth |-> last.mouth, width |-> last.width]
            /\ last.time < probe.first.duration

\* the sampler has been asked past the end of a timeline whose last frame
\* differs from its first
C17_Witness ==
    /\ probe.sample # <<>>
    /\ probe.elapsed > probe.first.duration
    /\ probe.first.frames[1].mouth
           # probe.first.frames[Len(probe.first.frames)].mouth

\* C18 as amended: for the text "Hey there" and an emotion with
\* mouthEnergy = 0.5 and handAmplitude = 0, the word duration is 0.42 s and
\* buildVisemeTimeline returns a duration of 2.04 s and 122 frames.
C18_HeyThereNeutral ==
    (/\ probe.first # <<>>
     /\ script = HeyThere
     /\ emotion.mouthEnergy = 500 /\ emotion.handAmplitude = 0) =>
        /\ estimateWordDuration(emotion) = 420000
        /\ probe.first.duration = 2040000
        /\ Len(probe.first.frames) = 122

\* C18 as stated: the same for every emotion with mouthEnergy = 0.5.
C18_HeyThereAnyGesture ==
    (/\ probe.first # <<>>
     /\ script = HeyThere
     /\ emotion.mouthEnergy = 500) =>
        /\ estimateWordDuration(emotion) = 420000
        /\ probe.first.duration = 2040000
        /\ Len(probe.first.frames) = 122

\* the synthesizer has returned the timeline of "Hey there" for the emotion
\* with mouthEnergy 0.5 and no gesture
C18_Witness ==
    /\ probe.first # <<>>
    /\ script = HeyThere
    /\ emotion = Neutral
    /\ Len(probe.first.frames) = 122

\* C19: no object URL created for an audio file is revoked twice; while
\* the engine is mounted every URL but the one held has been revoked, and
\* after teardown every one has.
C19_AudioUrlsRevokedOnce ==
    \A u \in 1..Len(objectUrls) :
        /\ objectUrls[u] <= 1
        /\ (mounted => (objectUrls[u] = 1 <=> u # objectUrlRef))
        /\ (~mounted => objectUrls[u] = 1)

\* the engine has been torn down after a second file replaced the first
C19_Witness ==
    /\ ~mounted
    /\ Len(objectUrls) >= 2
    /\ objectUrlRef = Len(objectUrls)

\* C20: the engine creates at most one audio context, one media-element
\* source and one analyser, and once created the context and the analyser
\* stay in place.
C20_AudioGraphSingletons ==
    /\ [](/\ audioGraph.contexts <= 1
          /\ audioGraph.sources <= 1
          /\ audioGraph.analysers <= 1
          /\ (audioGraph.contexts = 1 <=> audioContextRef # "none")
          /\ (audioGraph.analysers = 1 <=> analyserRef))
    /\ [][(audioContextRef # "none" => audioContextRef' # "none")
             /\ (analyserRef => analyserRef')
             /\ (audioGraph.contexts <= audioGraph'.contexts)]_vars

\* an audio session is playing, with its clock registered, on the one graph
\* the engine has created
C20_Witness ==
    /\ Playing("audio")
    /\ rafRef \in rafPending
    /\ analyserRef
    /\ audioGraph = [contexts |-> 1, sources |-> 1, analysers |-> 1]
    /\ calls = MaxCalls

\* C21: a forced startPreview that switches mode supersedes the old session:
\* forced into text mode while audio plays, it leaves the audio element
\* paused; forced into audio mode while an utterance is being spoken, it
\* leaves no utterance speaking. Then no 'ended' and no 'end' of the old
\* session is left to shut the new one down.
C21_ForcedModeSwitchSupersedes ==
    \A ctxState \in ContextStates :
        /\ (Playing("audio") /\ ~audioPaused /\ ttsSupported)
               => LET s == startPreview(Cur, "text", TRUE, FALSE, 0, ctxState)
                  IN  s.audioPaused
        /\ (Playing("text") /\ ttsSpeaking /\ hasAudioLoaded)
               => LET s == startPreview(Cur, "audio", TRUE, FALSE, 0, ctxState)
                  IN  ~s.ttsSpeaking

-----------------------------------------------------------------------------
(* Previews under a browser that keeps its clocks running: time advances    *)
(* and every registered animation-frame callback is eventually run. The     *)
(* caller starts, stops and loads audio, and forces a start only while no   *)
(* session is playing; nothing obliges the utterance to report its end.     *)

\* startPreview, without forceRestart whenever a session is playing
StartUnforcedWhilePlaying(sm, forceRestart) ==
    /\ isSpeaking => ~forceRestart
    /\ StartPreview(sm, forceRestart)

PreviewNext ==
    \/ Advance
    \/ \E sm \in Modes, f \in BOOLEAN : StartUnforcedWhilePlaying(sm, f)
    \/ StopPreview
    \/ LoadAudioFile
    \/ Unmount
    \/ \E id \in 1..MaxCalls : Tick(id)
    \/ UtteranceEnd
    \/ AudioEnded
    \/ \E id \in 1..MaxCalls : ResumeResolved(id)
    \/ PlayResolved

PreviewLiveSpec ==
    /\ Init
    /\ [][PreviewNext]_vars
    /\ WF_vars(Advance)
    /\ \A id \in 1..MaxCalls : WF_vars(Tick(id))

\* C22: with time advancing and every registered clock callback eventually
\* run, a text session that is playing eventually ends: the playing flag is
\* false and no clock callback is registered, whether or not the utterance
\* ever reports its end.
C22_TextSessionEventuallyEnds ==
    TextSession ~> (~isSpeaking /\ rafPending = {})

\* C23: the playing flag is true exactly when a clock callback is
\* registered.
C23_PlayingIffClockArmed ==
    isSpeaking <=> (rafPending # {})

\* the engine holds no timeline: neither frames nor a duration
TimelineCleared(s) ==
    s.visemeTimelineRef = NoTimeline /\ s.visemeDurationRef = 0

\* C24: whenever a playing session is torn down, by stopPreview, by an end
\* signal of the media or the utterance, by the tick that finds the timeline
\* exhausted or by the expiry of an export's capture window, the engine
\* holds no timeline afterwards.
C24_TeardownClearsTimeline ==
    isSpeaking =>
        /\ TimelineCleared(stopPreview(Cur))
        /\ TimelineCleared(shutdownPlayback(Cur))
        /\ (TextSession /\ PastTimeline) =>
               \A id \in rafPending, in \in FrameInputs :
                   TimelineCleared(TickOf(id, in))
        /\ \A e \in 1..MaxCalls :
               (exports[e].pc = "window") =>
                   TimelineCleared(exportWindowExpired(Cur, e))

\* the pose every channel of which is at its idle value
IdlePose == resetLipState(initialLipState)

\* C25: after stopPreview the published pose is the one idle pose, whatever
\* pose the last tick published: all twelve channels are reset.
C25_StopPublishesIdlePose ==
    stopPreview(Cur).lipState = IdlePose

-----------------------------------------------------------------------------
(* Exports of a loaded audio file. The page has registered its canvas, the  *)
(* user has loaded a file, previewed it in audio mode and stopped; from     *)
(* there the engine is asked to export once, to stop and to load, and is    *)
(* unmounted, while the collaborators deliver their events.                 *)

\* the engine as Init leaves it
MountedEngine ==
    [isSpeaking |-> FALSE, hasAudioLoaded |-> FALSE,
     lipState |-> initialLipState, modeRef |-> "text", rafRef |-> 0,
     sinceStart |-> 0, visemeTimelineRef |-> NoTimeline,
     visemeDurationRef |-> 0, exportResolveRef |-> 0,
     audioContextRef |-> "none", analyserRef |-> FALSE,
     ttsUtteranceRef |-> FALSE, stageCanvasRef |-> FALSE,
     rafPending |-> {}, ttsSpeaking |-> FALSE, audioPaused |-> TRUE,
     audioPos |-> 0, audioOnEnded |-> FALSE, starts |-> {},
     exports |-> [e \in 1..MaxCalls |-> NoExport], mounted |-> TRUE,
     objectUrlRef |-> 0, objectUrls |-> <<>>, audioGraph |-> NoAudioGraph]

\* registerStageCanvas(canvas); loadAudioFile(file);
\* startPreview({sourceMode: "audio"}) with its play() resolved;
\* stopPreview()
AudioPreviewed ==
    LET s1 == [MountedEngine EXCEPT !.stageCanvasRef = TRUE]
        s2 == loadAudioFile(s1)
        s3 == startPreview(s2, "audio", FALSE, FALSE, 0, "running")
        s4 == afterPlayAll(s3, s3.starts)
    IN  stopPreview(s4)

AudioExportInit ==
    /\ calls = 0
    /\ \E p \in InitialProps :
           /\ script = p.script
           /\ emotion = p.emotion
           /\ ttsSupported = p.ttsSupported
    /\ seed \in {s \in Seeds : \A s2 \in Seeds : s <= s2}
    /\ probe = NoProbe
    /\ studio = NoStudio
    /\ isSpeaking = AudioPreviewed.isSpeaking
    /\ hasAudioLoaded = AudioPreviewed.hasAudioLoaded
    /\ lipState = AudioPreviewed.lipState
    /\ modeRef = AudioPreviewed.modeRef
    /\ rafRef = AudioPreviewed.rafRef
    /\ sinceStart = AudioPreviewed.sinceStart
    /\ visemeTimelineRef = AudioPreviewed.visemeTimelineRef
    /\ visemeDurationRef = AudioPreviewed.visemeDurationRef
    /\ exportResolveRef = AudioPreviewed.exportResolveRef
    /\ audioContextRef = AudioPreviewed.audioContextRef
    /\ analyserRef = AudioPreviewed.analyserRef
    /\ ttsUtteranceRef = AudioPreviewed.ttsUtteranceRef
    /\ stageCanvasRef = AudioPreviewed.stageCanvasRef
    /\ rafPending = AudioPreviewed.rafPending
    /\ ttsSpeaking = AudioPreviewed.ttsSpeaking
    /\ audioPaused = AudioPreviewed.audioPaused
    /\ audioPos = AudioPreviewed.audioPos
    /\ audioOnEnded = AudioPreviewed.audioOnEnded
    /\ starts = AudioPreviewed.starts
    /\ exports = AudioPreviewed.exports
    /\ mounted = AudioPreviewed.mounted
    /\ objectUrlRef = AudioPreviewed.objectUrlRef
    /\ objectUrls = AudioPreviewed.objectUrls
    /\ audioGraph = AudioPreviewed.audioGraph

\* the first exportVideo call
ExportFirst ==
    /\ \A e \in 1..MaxCalls : exports[e].pc = "idle"
    /\ ExportVideo

AudioExportNext ==
    \/ Advance
    \/ ExportFirst
    \/ StopPreview
    \/ LoadAudioFile
    \/ Unmount
    \/ \E e \in 1..MaxCalls : ExportWindowExpired(e)
    \/ \E e \in 1..MaxCalls, size \in {0, 1} : DataAvailable(e, size)
    \/ \E e \in 1..MaxCalls, o \in TranscodeOutcomes : Transcode(e, o)
    \/ \E id \in 1..MaxCalls : Tick(id)
    \/ AudioEnded
    \/ PlayResolved

AudioExportSpec == AudioExportInit /\ [][AudioExportNext]_vars

\* C26: no exportVideo call throws, and a recorder is recording only while
\* its call is still on the way to the expiry of its capture window, where
\* it stops the recorder: no call ends, by returning or by throwing, with
\* its recorder left recording.
C26_ExportStopsRecorderAndReturns ==
    \A e \in 1..MaxCalls :
        /\ exports[e].pc # "threw"
        /\ (exports[e].recorder = "recording")
               => (exports[e].pc \in {"starting", "window"})

\* C27: when stopPreview returns, no clock callback is registered and the
\* engine is not playing, and no startPreview that was suspended at an
\* await when stop was called arms a clock or sets the playing flag once
\* its awaited resume and play complete.
C27_NothingRunsAfterStop ==
    LET s == stopPreview(Cur)
    IN  /\ s.rafPending = {}
        /\ ~s.isSpeaking
        /\ \A st \in s.starts :
               LET a == IF st.stage = "resume" THEN afterResume(s, st) ELSE s
                   b == afterPlayAll(a, {x \in a.starts : x.stage = "play"})
               IN  b.rafPending = {} /\ ~b.isSpeaking

\* the capture of the audio stream failed or gave no audio track
CaptureFailed(capture) == capture \in {"none", "throws"}

\* C28: in an audio-mode export whose capture of the audio stream throws or
\* yields no audio track, exportVideo goes on exactly as it does with a
\* track, except that the recorded stream has no audio track: the recorder
\* is started on the canvas stream, the forced session and the capture
\* window follow, and a call that returns returns a clip, never null.
C28_CaptureFailureDegrades ==
    /\ (stageCanvasRef /\ modeRef = "audio") =>
           \A e \in 1..MaxCalls, ctxState \in ContextStates,
              capture \in CaptureOutcomes :
               CaptureFailed(capture) =>
                   exportVideo(Cur, e, ctxState, capture) =
                       [exportVideo(Cur, e, ctxState, "track")
                           EXCEPT !.exports[e].capture = capture,
                                  !.exports[e].audioTrack = FALSE]
    /\ \A e \in 1..MaxCalls :
           CaptureFailed(exports[e].capture) =>
               /\ ~exports[e].audioTrack
               /\ exports[e].recorder # "none"
               /\ exports[e].pc # "idle"
               /\ (exports[e].pc = "returned")
                      => (exports[e].result \in {"mp4", "webm"})

\* an audio-mode export whose capture failed has recorded a playing session
\* through its window and returned a clip
C28_Witness ==
    \E e \in 1..MaxCalls :
        /\ CaptureFailed(exports[e].capture)
        /\ modeRef = "audio"
        /\ hasAudioLoaded
        /\ exports[e].pc = "returned"
        /\ exports[e].recorder = "inactive"
        /\ exports[e].result \in {"mp4", "webm"}

\* emotion profiles with mouthEnergy and handAmplitude over [0, 1]
EmotionGrid ==
    [mouthEnergy : {0, 250, 500, 750, 1000},
     handAmplitude : {0, 250, 500, 750, 1000},
     gazeIntensity : {0}, browLift : {0}]

\* 0.42 - (mouthEnergy - 0.5) * 0.2 - handAmplitude * 0.05 held within
\* [0.28, 0.6], in microseconds
ClaimedWordDuration(emo) ==
    LET x == 420000 - (emo.mouthEnergy - 500) * 200 - emo.handAmplitude * 50
    IN  IF x < 280000 THEN 280000 ELSE IF x > 600000 THEN 600000 ELSE x

\* C29: the word duration the synthesizer uses for the emotion is the
\* claimed expression, lies in [0.28, 0.6] s, and a profile with no less
\* mouthEnergy and no less handAmplitude never gets a longer one (nor one
\* with no more of both a shorter one).
C29_WordDurationClampedAndMonotone ==
    LET d == estimateWordDuration(emotion)
    IN  /\ d = ClaimedWordDuration(emotion)
        /\ 280000 <= d /\ d <= 600000
        /\ \A other \in EmotionGrid :
               /\ estimateWordDuration(other) = ClaimedWordDuration(other)
               /\ (/\ other.mouthEnergy >= emotion.mouthEnergy
                   /\ other.handAmplitude >= emotion.handAmplitude)
                      => (estimateWordDuration(other) <= d)
               /\ (/\ other.mouthEnergy <= emotion.mouthEnergy
                   /\ other.handAmplitude <= emotion.handAmplitude)
                      => (estimateWordDuration(other) >= d)

\* a timeline has been synthesized for words under the profile whose
\* unclamped duration, 0.27 s, is below the floor
C29_Witness ==
    /\ probe.first # <<>>
    /\ ~Blank(script)
    /\ emotion = Excited
    /\ estimateWordDuration(emotion) = 280000

\* C30: for every word of a synthesized text, the vowel-density term of the
\* word's peak is the number of vowel letters of the word divided by its
\* length, 0 for a word without vowel letters.
C30_VowelDensityIsRatio ==
    (probe.first # <<>>) =>
        LET words == getWords(script)
        IN  \A k \in 1..Len(words) :
                vowelWeight(words[k]) =
                    (MatchCount(words[k], Vowels) * 1000) \div Len(words[k])

-----------------------------------------------------------------------------
(* The avatar source of the page: portraits are uploaded, presets selected  *)
(* and the page unmounted.                                                  *)

MaxUploads == 4

\* URL.revokeObjectURL(prev) when prev is not null
revokeImageUrl(st, prev) ==
    IF prev # 0 THEN [st EXCEPT !.imageUrls[prev] = @ + 1] ELSE st

\* handleImageUpload(file): nothing without a file; otherwise an object URL
\* is created and the updater of setCustomImage revokes the previous one and
\* returns the new one
handleImageUpload(st, file) ==
    IF ~file THEN st
    ELSE LET s1 == [st EXCEPT !.imageUrls = Append(@, 0)]
             objectUrl == Len(s1.imageUrls)
             s2 == revokeImageUrl(s1, s1.customImage)
         IN  [s2 EXCEPT !.customImage = objectUrl]

\* onClick of a preset card: setCustomImage(null); setSelectedPreset(preset)
selectPreset(st, preset) ==
    [st EXCEPT !.customImage = 0, !.selectedPreset = preset]

\* the cleanup of the page's mount effect: setCustomImage with an updater
\* that revokes the URL held. React runs the updater of a state update made
\* while the component unmounts only when it computes the state eagerly
\* (no update pending on the component); else the update is dropped.
studioUnmount(st, updaterRuns) ==
    LET s1 == IF updaterRuns
              THEN [revokeImageUrl(st, st.customImage) EXCEPT !.customImage = 0]
              ELSE st
    IN  [s1 EXCEPT !.mounted = FALSE]

HandleImageUpload(file) ==
    /\ studio.mounted
    /\ Len(studio.imageUrls) < MaxUploads
    /\ studio' = handleImageUpload(studio, file)
    /\ UNCHANGED <<Engine, probe>>

SelectPreset(preset) ==
    /\ studio.mounted
    /\ studio' = selectPreset(studio, preset)
    /\ UNCHANGED <<Engine, probe>>

StudioUnmount(updaterRuns) ==
    /\ studio.mounted
    /\ studio' = studioUnmount(studio, updaterRuns)
    /\ UNCHANGED <<Engine, probe>>

StudioNext ==
    \/ \E file \in BOOLEAN : HandleImageUpload(file)
    \/ \E k \in 1..Len(AvatarPresets) : SelectPreset(AvatarPresets[k])
    \/ \E updaterRuns \in BOOLEAN : StudioUnmount(updaterRuns)

StudioSpec == Init /\ [][StudioNext]_vars

\* C31: every object URL created for an uploaded portrait is revoked at most
\* once, and exactly once as soon as it is no longer the portrait held:
\* after its replacement by another upload or by a preset, and after the
\* page has unmounted.
C31_PortraitUrlsRevokedOnce ==
    \A u \in 1..Len(studio.imageUrls) :
        /\ studio.imageUrls[u] <= 1
        /\ (u # studio.customImage \/ ~studio.mounted)
               => (studio.imageUrls[u] = 1)

====
